---- MODULE Spec2Model ----
(***************************************************************************)
(* Hospital strain dashboard: the static dashboard (frontend-vercel/app.js) *)
(* and the React dashboard (App component), modelled as one session state  *)
(* machine each, plus the pure data-to-view pipeline they share.           *)
(*                                                                         *)
(* Numbers.  A strain index or a delta is an integer count of hundredths   *)
(* (8001 is 80.01), so the thresholds 80 and 70 are 8000 and 7000.  A      *)
(* quotient is kept exact as a record [num, den].  Text is a sequence of   *)
(* one-character strings.                                                  *)
(***************************************************************************)
EXTENDS Integers, Sequences, FiniteSets, TLC

VARIABLES
  app,            \* which frontend this session runs: "vanilla" | "react"
  loaded,         \* the page's script has run
  hst_theme,      \* localStorage['hst_theme'] ("none": no entry)
  dark,           \* root.classList.contains('dark')
  datePicker,     \* datePicker.value
  inflight,       \* fetches awaiting their response
  nextId,         \* issue ordinal of the next fetch of this page
  kpi,            \* the KPI cards' DOM
  tableBody,      \* the table's rows (DOM)
  lastRefreshed,  \* lastRefreshed.textContent
  barChartInstance,
  lineChartInstance,
  download,       \* the last file offered by downloadCSV
  uncaught,       \* an error escaped a handler
  data,           \* React state: data
  loading,        \* React state: loading
  error,          \* React state: error
  date,           \* React state: date
  hist,           \* history of the session (not program state)
  input,          \* pipeline check: the input drawn
  output          \* pipeline check: what the function under check returned

pageVars  == <<loaded, dark, datePicker, inflight, nextId, kpi, tableBody,
               lastRefreshed, barChartInstance, lineChartInstance, download,
               uncaught>>
reactVars == <<data, loading, error, date>>
pureVars  == <<input, output>>
vars      == <<app, hst_theme, pageVars, reactVars, hist, pureVars>>

(***************************************************************************)
(* Bounds                                                                  *)
(***************************************************************************)
MaxRequests == 2      \* fetches one page issues
MaxRows     == 3      \* rows of a payload drawn for the pipeline check
MaxStrain   == 100    \* strain values drawn for the classification check
MaxDelta    == 5      \* deltas drawn for the delta check: -MaxDelta..MaxDelta

(***************************************************************************)
(* Generic helpers                                                         *)
(***************************************************************************)
Hundredths(n) == n * 100

RECURSIVE SeqSum(_)
SeqSum(s) == IF s = <<>> THEN 0 ELSE Head(s) + SeqSum(Tail(s))

Min2(a, b) == IF a < b THEN a ELSE b
Max2(a, b) == IF a > b THEN a ELSE b

\* Seqs of length <= n over S
SeqsUpTo(S, n) == UNION {[1..k -> S] : k \in 0..n}

(***************************************************************************)
(* Text and number formatting (JavaScript's String(n), toFixed, Math.round)*)
(***************************************************************************)
Digits == <<"0", "1", "2", "3", "4", "5", "6", "7", "8", "9">>
DigitChar(d) == Digits[d + 1]

Abs(n) == IF n < 0 THEN -n ELSE n

RECURSIVE NatStr(_)
NatStr(n) == IF n < 10 THEN <<DigitChar(n)>>
             ELSE NatStr(n \div 10) \o <<DigitChar(n % 10)>>

\* String(x) of a number x held in hundredths: shortest decimal, no trailing zeros
NumStr(h) ==
  LET a  == Abs(h)
      fp == a % 100
  IN  (IF h < 0 THEN <<"-">> ELSE <<>>)
      \o NatStr(a \div 100)
      \o (IF fp = 0 THEN <<>>
          ELSE IF fp % 10 = 0 THEN <<".", DigitChar(fp \div 10)>>
          ELSE <<".", DigitChar(fp \div 10), DigitChar(fp % 10)>>)

\* Math.round(x) of the quotient num/den (den > 0): floor(x + 1/2)
MathRound(num, den) == (2 * num + den) \div (2 * den)

\* x.toFixed(1) of the quotient num/den of hundredths (den > 0): the sign, then
\* the magnitude to the nearest tenth (a tie takes the larger tenth)
toFixed1(num, den) ==
  LET a == Abs(num)
      t == (2 * a + 10 * den) \div (20 * den)
  IN  (IF num < 0 THEN <<"-">> ELSE <<>>)
      \o NatStr(t \div 10) \o <<".", DigitChar(t % 10)>>

\* x.toFixed(2) of the quotient num/den of hundredths (den > 0)
toFixed2(num, den) ==
  LET a == Abs(num)
      t == (2 * a + den) \div (2 * den)
  IN  (IF num < 0 THEN <<"-">> ELSE <<>>)
      \o NatStr(t \div 100) \o <<".", DigitChar((t % 100) \div 10), DigitChar(t % 10)>>

RECURSIVE Join(_, _)
Join(lines, sep) ==
  IF lines = <<>> THEN <<>>
  ELSE IF Len(lines) = 1 THEN lines[1]
  ELSE lines[1] \o sep \o Join(Tail(lines), sep)

(***************************************************************************)
(* The metrics service's answer to one request, as the fetch sees it       *)
(***************************************************************************)
\* a payload row: delta is <<>> when absent or null, <<d>> when present
PayloadRow(region, strain_index, delta) ==
  [region |-> region, strain_index |-> strain_index, delta |-> delta]

NoBody == [kind |-> "none", rows |-> <<>>]
BodyNotJson == [kind |-> "notjson", rows |-> <<>>]     \* the body is no JSON
BodyNoRows  == [kind |-> "norows", rows |-> <<>>]      \* JSON with no rows field
BodyRows(rows) == [kind |-> "rows", rows |-> rows]     \* { rows: [...] }

TransportFailure == [transport |-> "fail", ok |-> FALSE, body |-> NoBody]
Answer(ok, body) == [transport |-> "ok", ok |-> ok, body |-> body]

\* the three failure outcomes of a request
IsFailure(resp) ==
  \/ resp.transport = "fail"
  \/ ~resp.ok
  \/ resp.body.kind # "rows"

(***************************************************************************)
(* app.js: API fetch                                                       *)
(***************************************************************************)
\* mutant: only a rise is kept as the delta
normalizeRow_PositiveOnly(row) ==
  [region |-> row.region,
   strain |-> row.strain_index,
   delta  |-> IF row.delta = <<>> THEN 0
              ELSE IF row.delta[1] > 0 THEN row.delta[1] ELSE 0]

normalizeRow(row) ==
  [region |-> row.region,
   strain |-> row.strain_index,
   delta  |-> IF row.delta = <<>> THEN 0
              ELSE IF row.delta[1] = 0 THEN 0 ELSE row.delta[1]]

normalizeRows(rows) == [i \in 1..Len(rows) |-> normalizeRow(rows[i])]

\* the try block: a rejected fetch, a body that is no JSON and a payload with
\* no rows (data.rows.map on undefined) each throw
fetchMetricsTry(resp) ==
  IF resp.transport = "fail" THEN [threw |-> TRUE, rows |-> <<>>]
  ELSE IF resp.body.kind = "notjson" THEN [threw |-> TRUE, rows |-> <<>>]
  ELSE IF resp.body.kind = "norows" THEN [threw |-> TRUE, rows |-> <<>>]
  ELSE [threw |-> FALSE, rows |-> normalizeRows(resp.body.rows)]

fetchMetrics(resp) ==
  LET r == fetchMetricsTry(resp)
  IN  IF r.threw THEN [threw |-> FALSE, rows |-> <<>>] ELSE r

TREND_LABELS == <<"Day 1", "Day 2", "Day 3", "Day 4", "Day 5", "Day 6", "Day 7">>
TREND_VALUES == <<62, 66, 64, 70, 73, 71, 75>>

(***************************************************************************)
(* app.js: helpers                                                         *)
(***************************************************************************)
CrisisAbove == 8000     \* strain > 80
ElevatedFrom == 7000    \* strain >= 70

formatPercent(n) == NatStr(MathRound(n, 100)) \o <<"%">>

\* mutant: crisis from 80 on, not above 80
strainBadge_CrisisFrom80(strain) ==
  IF strain >= CrisisAbove
    THEN [label |-> "CRISIS",
          cls |-> "bg-rose-100 text-rose-700 dark:bg-rose-900/40 dark:text-rose-200"]
  ELSE IF strain >= ElevatedFrom
    THEN [label |-> "ELEVATED",
          cls |-> "bg-orange-100 text-orange-700 dark:bg-orange-900/35 dark:text-orange-200"]
  ELSE [label |-> "STABLE",
        cls |-> "bg-emerald-100 text-emerald-700 dark:bg-emerald-900/35 dark:text-emerald-200"]

strainBadge(strain) ==
  IF strain > CrisisAbove
    THEN [label |-> "CRISIS",
          cls |-> "bg-rose-100 text-rose-700 dark:bg-rose-900/40 dark:text-rose-200"]
  ELSE IF strain >= ElevatedFrom
    THEN [label |-> "ELEVATED",
          cls |-> "bg-orange-100 text-orange-700 dark:bg-orange-900/35 dark:text-orange-200"]
  ELSE [label |-> "STABLE",
        cls |-> "bg-emerald-100 text-emerald-700 dark:bg-emerald-900/35 dark:text-emerald-200"]

strainPill(strain) ==
  IF strain > CrisisAbove
    THEN "bg-rose-500/10 text-rose-700 dark:text-rose-200 border border-rose-500/20"
  ELSE IF strain >= ElevatedFrom
    THEN "bg-orange-500/10 text-orange-700 dark:text-orange-200 border border-orange-500/20"
  ELSE "bg-emerald-500/10 text-emerald-700 dark:text-emerald-200 border border-emerald-500/20"

\* mutant: a delta of zero is shown as a rise
deltaCell_ZeroWorsening(delta) ==
  [text |-> (IF delta >= 0 THEN <<"+">> ELSE <<>>) \o toFixed1(delta, 1),
   cls  |-> IF delta >= 0 THEN "text-rose-600 dark:text-rose-300"
            ELSE "text-emerald-600 dark:text-emerald-300"]

deltaCell(delta) ==
  [text |-> (IF delta > 0 THEN <<"+">> ELSE <<>>) \o toFixed1(delta, 1),
   cls  |-> IF delta > 0 THEN "text-rose-600 dark:text-rose-300"
            ELSE IF delta < 0 THEN "text-emerald-600 dark:text-emerald-300"
            ELSE "text-slate-600 dark:text-slate-300"]

(***************************************************************************)
(* app.js: renderDashboard, after its fetch                                *)
(***************************************************************************)
\* mutant: a row goes before the rows of equal strain sorted so far
RECURSIVE insertByStrain_BeforeTies(_, _)
insertByStrain_BeforeTies(r, sorted) ==
  IF sorted = <<>> THEN <<r>>
  ELSE IF Head(sorted).strain > r.strain
    THEN <<Head(sorted)>> \o insertByStrain_BeforeTies(r, Tail(sorted))
  ELSE <<r>> \o sorted

\* rows.slice().sort((a, b) => b.strain - a.strain): Array.prototype.sort is
\* stable, so a row goes after every row whose strain is not smaller
RECURSIVE insertByStrain(_, _)
insertByStrain(r, sorted) ==
  IF sorted = <<>> THEN <<r>>
  ELSE IF Head(sorted).strain >= r.strain
    THEN <<Head(sorted)>> \o insertByStrain(r, Tail(sorted))
  ELSE <<r>> \o sorted

\* mutant: the rows are used in the order they were fetched
sortByStrainDesc_Unsorted(rows) == rows

RECURSIVE sortByStrainDesc(_)
sortByStrainDesc(rows) ==
  IF rows = <<>> THEN <<>>
  ELSE insertByStrain(rows[Len(rows)],
                      sortByStrainDesc(SubSeq(rows, 1, Len(rows) - 1)))

Sentinel == [region |-> <<"-">>, strain |-> 0]      \* { region: "—", strain: 0 }

\* rows.map(r => r.strain), rows.map(r => r.region)
strains(rows) == [i \in 1..Len(rows) |-> rows[i].strain]
regions(rows) == [i \in 1..Len(rows) |-> rows[i].region]
\* mutant: counts a strain of exactly 80 as crisis
IsCrisisRow_From80(r) == r.strain >= CrisisAbove

IsCrisisRow(r) == r.strain > CrisisAbove

\* mutant: the placeholder for no rows has a blank region
rankedView_BlankSentinel(rows) ==
  LET sortedRows == sortByStrainDesc(rows)
      n == Len(sortedRows)
  IN  [rows        |-> sortedRows,
       highest     |-> IF n > 0 THEN sortedRows[1] ELSE [region |-> <<>>, strain |-> 0],
       avg         |-> IF n > 0 THEN [num |-> SeqSum(strains(sortedRows)), den |-> n]
                                ELSE [num |-> 0, den |-> 1],
       crisisCount |-> Len(SelectSeq(sortedRows, IsCrisisRow))]

\* the locals sortedRows, highest, avg, crisisCount
rankedView(rows) ==
  LET sortedRows == sortByStrainDesc(rows)
  IN  [rows        |-> sortedRows,
       highest     |-> IF sortedRows # <<>> THEN sortedRows[1] ELSE Sentinel,
       avg         |-> IF Len(sortedRows) # 0
                         THEN [num |-> SeqSum(strains(sortedRows)),
                               den |-> Len(sortedRows)]
                         ELSE [num |-> 0, den |-> 1],
       crisisCount |-> Len(SelectSeq(sortedRows, IsCrisisRow))]

\* the KPI cards as written to the DOM
kpiCards(view) ==
  [highestState |-> view.highest.region,
   highestValue |-> formatPercent(view.highest.strain),
   highestBadge |-> strainBadge(view.highest.strain),
   average      |-> toFixed1(view.avg.num, view.avg.den),
   \* avgProgress.style.width: Math.max(0, Math.min(100, avg)), in hundredths
   avgProgress  |-> IF view.avg.num < 0 THEN [num |-> 0, den |-> 1]
                    ELSE IF view.avg.num > 10000 * view.avg.den
                      THEN [num |-> 10000, den |-> 1]
                    ELSE view.avg,
   crisis       |-> view.crisisCount]

tableRow(r) ==
  [region |-> r.region,
   pill   |-> strainPill(r.strain),
   strain |-> formatPercent(r.strain),
   delta  |-> deltaCell(r.delta)]

tableRows(rows) == [i \in 1..Len(rows) |-> tableRow(rows[i])]

\* lastRefreshed: the date in the host's locale, or a dash for no date
refreshedText(dateStr) ==
  IF dateStr # "" THEN [localeDate |-> dateStr] ELSE [localeDate |-> "-"]

(***************************************************************************)
(* app.js: charts                                                          *)
(***************************************************************************)
NoChart == [inst |-> 0]          \* barChartInstance = null

chartThemeColors(isDark) ==
  [grid   |-> IF isDark THEN "rgba(148,163,184,0.14)" ELSE "rgba(148,163,184,0.28)",
   ticks  |-> IF isDark THEN "rgba(226,232,240,0.85)" ELSE "rgba(15,23,42,0.75)",
   border |-> IF isDark THEN "rgba(148,163,184,0.22)" ELSE "rgba(148,163,184,0.35)"]

\* mutant: a strain of exactly 70 gets the lowest class's bar color
barColor_ElevatedAbove70(s) ==
  IF s > CrisisAbove THEN "rgba(244, 63, 94, 0.75)"
  ELSE IF s > ElevatedFrom THEN "rgba(249, 115, 22, 0.75)"
  ELSE "rgba(16, 185, 129, 0.75)"

barColor(s) ==
  IF s > CrisisAbove THEN "rgba(244, 63, 94, 0.75)"
  ELSE IF s >= ElevatedFrom THEN "rgba(249, 115, 22, 0.75)"
  ELSE "rgba(16, 185, 129, 0.75)"

buildBarColors(values) == [i \in 1..Len(values) |-> barColor(values[i])]

\* mutant: destroys the chart and makes a new one on every rebuild
updateBarChart_Recreates(chart, built, rows, isDark) ==
  LET t      == chartThemeColors(isDark)
      values == strains(rows)
  IN  [chart |-> [inst            |-> built + 1,
                  labels          |-> regions(rows),
                  data            |-> values,
                  backgroundColor |-> buildBarColors(values),
                  borderColor     |-> t.border,
                  xTicks          |-> t.ticks,
                  yTicks          |-> t.ticks,
                  yGrid           |-> t.grid],
       built |-> built + 1]

\* mutant: an update of the existing chart keeps the bars' old colors
updateBarChart_KeepsColors(chart, built, rows, isDark) ==
  LET t      == chartThemeColors(isDark)
      values == strains(rows)
      fresh  == [labels          |-> regions(rows),
                 data            |-> values,
                 backgroundColor |-> IF chart # NoChart THEN chart.backgroundColor
                                     ELSE buildBarColors(values),
                 borderColor     |-> t.border,
                 xTicks          |-> t.ticks,
                 yTicks          |-> t.ticks,
                 yGrid           |-> t.grid]
  IN  IF chart # NoChart
        THEN [chart |-> [inst |-> chart.inst] @@ fresh, built |-> built]
        ELSE [chart |-> [inst |-> built + 1] @@ fresh, built |-> built + 1]

\* updateCharts, bar chart: a chart instance is [inst, built, ...]: inst is the
\* ordinal of the new Chart(...) call that made it
updateBarChart(chart, built, rows, isDark) ==
  LET t      == chartThemeColors(isDark)
      values == strains(rows)
      fresh  == [labels          |-> regions(rows),
                 data            |-> values,
                 backgroundColor |-> buildBarColors(values),
                 borderColor     |-> t.border,
                 xTicks          |-> t.ticks,
                 yTicks          |-> t.ticks,
                 yGrid           |-> t.grid]
  IN  IF chart # NoChart
        THEN [chart |-> [inst |-> chart.inst] @@ fresh, built |-> built]
        ELSE [chart |-> [inst |-> built + 1] @@ fresh, built |-> built + 1]

\* updateCharts, line chart (placeholder trend)
updateLineChart(chart, built, isDark) ==
  LET t     == chartThemeColors(isDark)
      fresh == [labels |-> TREND_LABELS,
                data   |-> TREND_VALUES,
                xTicks |-> t.ticks,
                yTicks |-> t.ticks,
                yGrid  |-> t.grid]
  IN  IF chart # NoChart
        THEN [chart |-> [inst |-> chart.inst] @@ fresh, built |-> built]
        ELSE [chart |-> [inst |-> built + 1] @@ fresh, built |-> built + 1]

\* a property write on a chart: on null it throws a TypeError
Threw == [inst |-> -1]
\* mutant: also paints the bars with the border color
recolorBar_PaintsBars(chart, t) ==
  IF chart = NoChart THEN Threw
  ELSE [chart EXCEPT !.xTicks = t.ticks, !.yTicks = t.ticks, !.yGrid = t.grid,
                     !.borderColor = t.border,
                     !.backgroundColor = [i \in 1..Len(chart.data) |-> t.border]]

recolorBar(chart, t) ==
  IF chart = NoChart THEN Threw
  ELSE [chart EXCEPT !.xTicks = t.ticks, !.yTicks = t.ticks, !.yGrid = t.grid,
                     !.borderColor = t.border]

recolorLine(chart, t) ==
  IF chart = NoChart THEN Threw
  ELSE [chart EXCEPT !.xTicks = t.ticks, !.yTicks = t.ticks, !.yGrid = t.grid]

\* mutant: no early return and no null checks
refreshCharts_NoGuard(bar, line, isDark) ==
  LET t  == chartThemeColors(isDark)
      b2 == recolorBar(bar, t)
      l2 == recolorLine(line, t)
  IN  IF b2 = Threw THEN [bar |-> bar, line |-> line, threw |-> TRUE]
      ELSE IF l2 = Threw THEN [bar |-> b2, line |-> line, threw |-> TRUE]
      ELSE [bar |-> b2, line |-> l2, threw |-> FALSE]

\* refreshCharts: [bar, line, threw]
refreshCharts(bar, line, isDark) ==
  IF bar = NoChart /\ line = NoChart
    THEN [bar |-> bar, line |-> line, threw |-> FALSE]
  ELSE LET t  == chartThemeColors(isDark)
           b2 == IF bar # NoChart THEN recolorBar(bar, t) ELSE bar
           l2 == IF line # NoChart THEN recolorLine(line, t) ELSE line
       IN  IF b2 = Threw THEN [bar |-> bar, line |-> line, threw |-> TRUE]
           ELSE IF l2 = Threw THEN [bar |-> b2, line |-> line, threw |-> TRUE]
           ELSE [bar |-> b2, line |-> l2, threw |-> FALSE]

\* renderDashboard from its fetch's rows on: everything it writes
renderDashboard(rows, dateStr, bar, barBuilt, line, lineBuilt, isDark) ==
  LET v == rankedView(rows)
      b == updateBarChart(bar, barBuilt, v.rows, isDark)
      l == updateLineChart(line, lineBuilt, isDark)
  IN  [view          |-> v,
       kpi           |-> kpiCards(v),
       tableBody     |-> tableRows(v.rows),
       bar           |-> b.chart,
       barBuilt      |-> b.built,
       line          |-> l.chart,
       lineBuilt     |-> l.built,
       lastRefreshed |-> refreshedText(dateStr)]

(***************************************************************************)
(* app.js: CSV export                                                      *)
(***************************************************************************)
\* mutant: the region's quote characters are left as they are
doubleQuotes_Unescaped(text) == text

\* String(region).replace(/"/g, '""')
RECURSIVE doubleQuotes(_)
doubleQuotes(text) ==
  IF text = <<>> THEN <<>>
  ELSE (IF Head(text) = "\"" THEN <<"\"", "\"">> ELSE <<Head(text)>>)
       \o doubleQuotes(Tail(text))

csvLine(r) ==
  Join(<< <<"\"">> \o doubleQuotes(r.region) \o <<"\"">>,
          NumStr(r.strain),
          NumStr(r.delta) >>, <<",">>)

csvHeader == Join(<< <<"Region">>, <<"Strain Index">>, <<"Delta Strain">> >>, <<",">>)

\* the lines that toCSV joins with "\n"
toCSVLines(rows) == <<csvHeader>> \o [i \in 1..Len(rows) |-> csvLine(rows[i])]

toCSV(rows) == Join(toCSVLines(rows), <<"\n">>)

\* a.download
fileName(dateStr) ==
  <<"hospital_strain_", IF dateStr # "" THEN dateStr ELSE "snapshot", ".csv">>

\* downloadCSV from its fetch's rows on: the file it offers
downloadCSV(rows, dateStr) ==
  [name |-> fileName(dateStr), text |-> toCSV(sortByStrainDesc(rows))]

(***************************************************************************)
(* app.js: theme handling                                                  *)
(***************************************************************************)
\* mutant: stores the theme it leaves, not the one it sets
setTheme_StoresOld(mode, bar, line) ==
  LET isDark == (mode = "dark")
  IN  [dark |-> isDark, stored |-> IF isDark THEN "light" ELSE "dark",
       charts |-> refreshCharts(bar, line, isDark)]

\* mutant: removes the stored preference instead of writing it
setTheme_ClearsStored(mode, bar, line) ==
  LET isDark == (mode = "dark")
  IN  [dark |-> isDark, stored |-> "none", charts |-> refreshCharts(bar, line, isDark)]

\* mutant: does not restyle the charts
setTheme_NoRefresh(mode, bar, line) ==
  LET isDark == (mode = "dark")
  IN  [dark |-> isDark, stored |-> mode,
       charts |-> [bar |-> bar, line |-> line, threw |-> FALSE]]

\* setTheme(mode): the root class, the stored preference, then refreshCharts
setTheme(mode, bar, line) ==
  LET isDark == (mode = "dark")
  IN  [dark |-> isDark, stored |-> mode, charts |-> refreshCharts(bar, line, isDark)]

\* mutant: the host's preference is consulted before the stored one
initThemeMode_AmbientFirst(saved, ambient) ==
  IF ambient = "dark" \/ ambient = "light" THEN ambient
  ELSE IF saved = "dark" THEN "dark" ELSE "light"

\* the mode initTheme hands to setTheme; ambient is the host's preference:
\* "dark", "light", or "unknown" when window.matchMedia is missing
initThemeMode(saved, ambient) ==
  IF saved = "dark" \/ saved = "light" THEN saved
  ELSE IF ambient = "dark" THEN "dark" ELSE "light"

(***************************************************************************)
(* The session: inputs                                                     *)
(***************************************************************************)
RowX == PayloadRow(<<"X">>, 8500, <<300>>)
RowY == PayloadRow(<<"Y">>, 6000, <<>>)
RowQ == PayloadRow(<<"A", "\"", "B">>, 9100, <<200>>)
RowC == PayloadRow(<<"C">>, 5000, <<-100>>)

SessionPayloads == {<<>>, <<RowY, RowX>>, <<RowC, RowQ>>}

SessionResponses ==
  {TransportFailure}
    \cup {Answer(ok, body) : ok \in BOOLEAN,
                             body \in {BodyNotJson, BodyNoRows}
                                        \cup {BodyRows(p) : p \in SessionPayloads}}

DefaultDate == "2021-06-12"          \* setDefaultDate
App_DefaultDate == "2024-01-16"      \* useState('2024-01-16')
Dates == {DefaultDate, App_DefaultDate, ""}
Ambient == {"dark", "light", "unknown"}
StoredValues == {"none", "light", "dark", "bogus"}

Request(id, kind, dateStr) == [id |-> id, kind |-> kind, date |-> dateStr]

(***************************************************************************)
(* The session: state before the page's script runs                        *)
(***************************************************************************)
NoKpi      == [blank |-> TRUE]
NoDownload == [blank |-> TRUE]
NoText     == [localeDate |-> ""]
NoResp     == [transport |-> "none", ok |-> FALSE, body |-> NoBody]
NullData   == [kind |-> "null", rows |-> <<>>]
NoError    == "null"

\* what initTheme read, kept while the page load is the last handler that ran
NoInit == [saved |-> "none", ambient |-> "none", again |-> FALSE]

NoHist ==
  [op        |-> "none",    \* the handler that ran last
   init      |-> NoInit,    \* after a load: the stored value and the ambient
                            \* preference initTheme read; again: a reload
   issued    |-> {},        \* ids of the renders this page started
   renders   |-> <<>>,      \* ids of the renders completed, in completion order
   resp      |-> NoResp,    \* the answer the last completed render got
   fetched   |-> <<>>,      \* the rows fetchMetrics returned to it
   exported  |-> <<>>,      \* the rows fetchMetrics returned to the last export
   barBuilt  |-> 0,         \* new Chart(barCtx, ...) calls
   lineBuilt |-> 0]         \* new Chart(lineCtx, ...) calls

PageBlank ==
  /\ loaded = FALSE
  /\ dark = FALSE
  /\ datePicker = ""
  /\ inflight = {}
  /\ nextId = 1
  /\ kpi = NoKpi
  /\ tableBody = <<>>
  /\ lastRefreshed = NoText
  /\ barChartInstance = NoChart
  /\ lineChartInstance = NoChart
  /\ download = NoDownload
  /\ uncaught = FALSE
  /\ data = NullData
  /\ loading = FALSE
  /\ error = NoError
  /\ date = ""
  /\ hist = NoHist

NoInput  == [kind |-> "none"]
NoOutput == [fn |-> "none"]

Init ==
  /\ app \in {"vanilla", "react"}
  /\ hst_theme \in StoredValues
  /\ PageBlank
  /\ input = NoInput
  /\ output = NoOutput

(***************************************************************************)
(* app.js: the handlers                                                    *)
(***************************************************************************)
\* The script runs top to bottom, then the init block: initTheme,
\* setDefaultDate, renderDashboard up to its fetch.  A reload runs it again on
\* a fresh page; only localStorage survives.
LoadPage ==
  /\ app = "vanilla"
  /\ \E ambient \in Ambient :
       LET th == setTheme(initThemeMode(hst_theme, ambient), NoChart, NoChart)
       IN  /\ dark' = th.dark
           /\ hst_theme' = th.stored
           /\ barChartInstance' = th.charts.bar
           /\ lineChartInstance' = th.charts.line
           /\ uncaught' = th.charts.threw
           /\ hist' = [NoHist EXCEPT !.op = "load", !.issued = {1},
                                     !.init = [saved   |-> hst_theme,
                                               ambient |-> ambient,
                                               again   |-> loaded]]
  /\ loaded' = TRUE
  /\ datePicker' = DefaultDate
  /\ inflight' = {Request(1, "render", DefaultDate)}
  /\ nextId' = 2
  /\ kpi' = NoKpi
  /\ tableBody' = <<>>
  /\ lastRefreshed' = NoText
  /\ download' = NoDownload
  /\ UNCHANGED <<app, reactVars, pureVars>>

\* mutant: the toggle flips the theme without storing it
ToggleTheme_NotStored ==
  /\ app = "vanilla" /\ loaded
  /\ LET th == setTheme(IF dark THEN "light" ELSE "dark",
                        barChartInstance, lineChartInstance)
     IN  /\ dark' = th.dark
         /\ barChartInstance' = th.charts.bar
         /\ lineChartInstance' = th.charts.line
         /\ uncaught' = (uncaught \/ th.charts.threw)
  /\ hist' = [hist EXCEPT !.init = NoInit, !.op = "toggle"]
  /\ UNCHANGED <<app, loaded, hst_theme, datePicker, inflight, nextId, kpi,
                 tableBody, lastRefreshed, download, reactVars, pureVars>>

\* themeToggle click
ToggleTheme ==
  /\ app = "vanilla" /\ loaded
  /\ LET th == setTheme(IF dark THEN "light" ELSE "dark",
                        barChartInstance, lineChartInstance)
     IN  /\ dark' = th.dark
         /\ hst_theme' = th.stored
         /\ barChartInstance' = th.charts.bar
         /\ lineChartInstance' = th.charts.line
         /\ uncaught' = (uncaught \/ th.charts.threw)
  /\ hist' = [hist EXCEPT !.init = NoInit, !.op = "toggle"]
  /\ UNCHANGED <<app, loaded, datePicker, inflight, nextId, kpi, tableBody,
                 lastRefreshed, download, reactVars, pureVars>>

\* mutant: a new date aborts the renders still in flight
ChangeDate_AbortsPrior ==
  /\ app = "vanilla" /\ loaded
  /\ nextId <= MaxRequests
  /\ \E d \in Dates \ {datePicker} :
       /\ datePicker' = d
       /\ inflight' = {q \in inflight : q.kind # "render"}
                         \cup {Request(nextId, "render", d)}
  /\ nextId' = nextId + 1
  /\ hist' = [hist EXCEPT !.init = NoInit, !.op = "date", !.issued = @ \cup {nextId}]
  /\ UNCHANGED <<app, loaded, hst_theme, dark, kpi, tableBody, lastRefreshed,
                 barChartInstance, lineChartInstance, download, uncaught,
                 reactVars, pureVars>>

\* datePicker change: renderDashboard(datePicker.value) up to its fetch
ChangeDate ==
  /\ app = "vanilla" /\ loaded
  /\ nextId <= MaxRequests
  /\ \E d \in Dates \ {datePicker} :
       /\ datePicker' = d
       /\ inflight' = inflight \cup {Request(nextId, "render", d)}
  /\ nextId' = nextId + 1
  /\ hist' = [hist EXCEPT !.init = NoInit, !.op = "date", !.issued = @ \cup {nextId}]
  /\ UNCHANGED <<app, loaded, hst_theme, dark, kpi, tableBody, lastRefreshed,
                 barChartInstance, lineChartInstance, download, uncaught,
                 reactVars, pureVars>>

\* downloadBtn click: downloadCSV(datePicker.value) up to its fetch
ClickDownload ==
  /\ app = "vanilla" /\ loaded
  /\ nextId <= MaxRequests
  /\ inflight' = inflight \cup {Request(nextId, "export", datePicker)}
  /\ nextId' = nextId + 1
  /\ hist' = [hist EXCEPT !.init = NoInit, !.op = "click"]
  /\ UNCHANGED <<app, loaded, hst_theme, dark, datePicker, kpi, tableBody,
                 lastRefreshed, barChartInstance, lineChartInstance, download,
                 uncaught, reactVars, pureVars>>

\* renderDashboard from the fetch's answer on: KPIs, table, charts, date
CompleteRender ==
  /\ app = "vanilla" /\ loaded
  /\ \E req \in inflight, resp \in SessionResponses :
       /\ req.kind = "render"
       /\ inflight' = inflight \ {req}
       /\ LET got == fetchMetrics(resp)
              out == renderDashboard(got.rows, req.date,
                                     barChartInstance, hist.barBuilt,
                                     lineChartInstance, hist.lineBuilt, dark)
          IN  IF got.threw
                THEN /\ uncaught' = TRUE
                     /\ hist' = [hist EXCEPT !.init = NoInit, !.op = "render"]
                     /\ UNCHANGED <<kpi, tableBody, lastRefreshed,
                                    barChartInstance, lineChartInstance>>
                ELSE /\ kpi' = out.kpi
                     /\ tableBody' = out.tableBody
                     /\ barChartInstance' = out.bar
                     /\ lineChartInstance' = out.line
                     /\ lastRefreshed' = out.lastRefreshed
                     /\ hist' = [hist EXCEPT !.init = NoInit, !.op = "render",
                                             !.renders = Append(@, req.id),
                                             !.resp = resp,
                                             !.fetched = got.rows,
                                             !.barBuilt = out.barBuilt,
                                             !.lineBuilt = out.lineBuilt]
                     /\ UNCHANGED uncaught
  /\ UNCHANGED <<app, loaded, hst_theme, dark, datePicker, nextId, download,
                 reactVars, pureVars>>

\* mutant: the export serializes the rows of the last render
CompleteExport_ReusesSnapshot ==
  /\ app = "vanilla" /\ loaded
  /\ \E req \in inflight, resp \in SessionResponses :
       /\ req.kind = "export"
       /\ inflight' = inflight \ {req}
       /\ download' = downloadCSV(hist.fetched, req.date)
       /\ hist' = [hist EXCEPT !.init = NoInit, !.op = "export",
                               !.exported = fetchMetrics(resp).rows]
  /\ UNCHANGED <<app, loaded, hst_theme, dark, datePicker, nextId, kpi,
                 tableBody, lastRefreshed, barChartInstance, lineChartInstance,
                 uncaught, reactVars, pureVars>>

\* downloadCSV from the fetch's answer on
CompleteExport ==
  /\ app = "vanilla" /\ loaded
  /\ \E req \in inflight, resp \in SessionResponses :
       /\ req.kind = "export"
       /\ inflight' = inflight \ {req}
       /\ LET got == fetchMetrics(resp)
          IN  IF got.threw
                THEN /\ uncaught' = TRUE
                     /\ hist' = [hist EXCEPT !.init = NoInit, !.op = "export"]
                     /\ UNCHANGED download
                ELSE /\ download' = downloadCSV(got.rows, req.date)
                     /\ hist' = [hist EXCEPT !.init = NoInit, !.op = "export",
                                             !.exported = got.rows]
                     /\ UNCHANGED uncaught
  /\ UNCHANGED <<app, loaded, hst_theme, dark, datePicker, nextId, kpi,
                 tableBody, lastRefreshed, barChartInstance, lineChartInstance,
                 reactVars, pureVars>>

(***************************************************************************)
(* React dashboard: App                                                    *)
(***************************************************************************)
\* fetchMetrics from the fetch's answer on: what try / catch leaves in
\* data and error (finally clears loading)
App_fetchMetrics(resp) ==
  IF resp.transport = "fail"
    THEN [data |-> NullData, error |-> "Failed to fetch"]
  ELSE IF ~resp.ok
    THEN [data |-> NullData, error |-> "HTTP error! status"]
  ELSE IF resp.body.kind = "notjson"
    THEN [data |-> NullData, error |-> "Unexpected token"]
  ELSE [data |-> resp.body, error |-> NoError]

\* the component's render reads data.rows.length: a payload with no rows
\* field throws there
App_renderThrows(d) == d.kind = "norows"

RECURSIVE App_maxRow(_, _)
App_maxRow(rows, max) ==
  IF rows = <<>> THEN max
  ELSE App_maxRow(Tail(rows),
                  IF Head(rows).strain_index > max.strain_index
                    THEN Head(rows) ELSE max)

payloadStrains(rows) == [i \in 1..Len(rows) |-> rows[i].strain_index]
IsCrisisPayloadRow(row) == row.strain_index > CrisisAbove
NoRow == [region |-> <<>>]                 \* highestStrain = null
NoAverage == <<>>                          \* averageStrain = null

highestStrain(d) ==
  IF d.kind = "rows" /\ Len(d.rows) # 0 THEN App_maxRow(d.rows, d.rows[1]) ELSE NoRow

averageStrain(d) ==
  IF d.kind = "rows" /\ Len(d.rows) # 0
    THEN toFixed2(SeqSum(payloadStrains(d.rows)), Len(d.rows))
  ELSE NoAverage

statesInCrisis(d) ==
  IF d.kind = "rows" /\ Len(d.rows) # 0
    THEN Len(SelectSeq(d.rows, IsCrisisPayloadRow))
  ELSE 0

getStrainColor(strain) ==
  IF strain > CrisisAbove THEN "text-red-600"
  ELSE IF strain >= ElevatedFrom THEN "text-orange-600"
  ELSE "text-green-600"

\* a payload delta is <<>> (null or undefined) or <<d>>
formatDelta(delta) ==
  IF delta = <<>> THEN <<"-">>
  ELSE (IF delta[1] > 0 THEN <<"+">> ELSE <<>>) \o toFixed2(delta[1], 1)

\* the delta cell's className in the table
App_deltaColor(delta) ==
  IF delta # <<>>
    THEN IF delta[1] > 0 THEN "text-red-600"
         ELSE IF delta[1] < 0 THEN "text-green-600"
         ELSE "text-gray-600"
  ELSE "text-gray-600"

\* what the component shows for its state
App_view(d, isLoading, err) ==
  LET shown == d # NullData /\ ~isLoading /\ err = NoError
  IN  [loading |-> isLoading,
       error   |-> err,
       shown   |-> shown,
       noData  |-> shown /\ d.rows = <<>>,
       cards   |-> shown /\ d.rows # <<>>,
       rows    |-> IF shown THEN d.rows ELSE <<>>,      \* table and bar chart
       highest |-> highestStrain(d),
       average |-> averageStrain(d),
       crisis  |-> statesInCrisis(d)]

\* mount: the state's initial values, then useEffect's fetchMetrics(date)
App_Mount ==
  /\ app = "react"
  /\ loaded' = TRUE
  /\ date' = App_DefaultDate
  /\ data' = NullData
  /\ loading' = TRUE
  /\ error' = NoError
  /\ uncaught' = FALSE
  /\ inflight' = {Request(1, "react", App_DefaultDate)}
  /\ nextId' = 2
  /\ hist' = [NoHist EXCEPT !.op = "load", !.issued = {1}]
  /\ UNCHANGED <<app, hst_theme, dark, datePicker, kpi, tableBody, lastRefreshed,
                 barChartInstance, lineChartInstance, download, pureVars>>

\* handleDateChange: setDate, then fetchMetrics up to its fetch
App_handleDateChange ==
  /\ app = "react" /\ loaded /\ ~uncaught
  /\ nextId <= MaxRequests
  /\ \E newDate \in Dates \ {date} :
       /\ date' = newDate
       /\ inflight' = inflight \cup {Request(nextId, "react", newDate)}
  /\ loading' = TRUE
  /\ error' = NoError
  /\ nextId' = nextId + 1
  /\ hist' = [hist EXCEPT !.init = NoInit, !.op = "date", !.issued = @ \cup {nextId}]
  /\ UNCHANGED <<app, loaded, hst_theme, dark, datePicker, kpi, tableBody,
                 lastRefreshed, barChartInstance, lineChartInstance, download,
                 uncaught, data, pureVars>>

\* fetchMetrics from the fetch's answer on
App_Complete ==
  /\ app = "react" /\ loaded
  /\ \E req \in inflight, resp \in SessionResponses :
       /\ inflight' = inflight \ {req}
       /\ LET got == App_fetchMetrics(resp)
          IN  /\ data' = got.data
              /\ error' = IF got.error # NoError THEN got.error ELSE error
              /\ uncaught' = (uncaught \/ App_renderThrows(got.data))
              /\ hist' = [hist EXCEPT !.init = NoInit, !.op = "render",
                                      !.renders = Append(@, req.id),
                                      !.resp = resp,
                                      !.fetched = got.data.rows]
  /\ loading' = FALSE
  /\ UNCHANGED <<app, loaded, hst_theme, dark, datePicker, nextId, kpi,
                 tableBody, lastRefreshed, barChartInstance, lineChartInstance,
                 download, date, pureVars>>

(***************************************************************************)
(* The session                                                             *)
(***************************************************************************)
Next ==
  \/ LoadPage
  \/ ToggleTheme
  \/ ChangeDate
  \/ ClickDownload
  \/ CompleteRender
  \/ CompleteExport
  \/ App_Mount
  \/ App_handleDateChange
  \/ App_Complete

Spec == Init /\ [][Next]_vars

(***************************************************************************)
(* The pipeline on its own: one drawn input, one function applied to it    *)
(***************************************************************************)
RowT == PayloadRow(<<"T">>, 8500, <<0>>)          \* ties with RowX
RowE == PayloadRow(<<"E">>, 8000, <<-325>>)
RowF == PayloadRow(<<"F">>, 6001, <<500>>)

PipelineRows == {RowX, RowY, RowT, RowE, RowF, RowQ, RowC}

StrainInput(v) == [kind |-> "strain", strain |-> v, rows |-> <<>>]
RowsInput(p)   == [kind |-> "rows", strain |-> 0, rows |-> p]

\* a payload delta: absent, or a value in hundredths
DeltaInput(d)  == [kind |-> "delta", strain |-> 0, rows |-> <<>>, delta |-> d]
DeltaInputs ==
  {DeltaInput(<<>>)}
    \cup {DeltaInput(<<d>>) : d \in (-Hundredths(MaxDelta))..Hundredths(MaxDelta)}

PipelineInputs ==
  {StrainInput(v) : v \in 0..Hundredths(MaxStrain)}
    \cup DeltaInputs
    \cup {RowsInput(p) : p \in SeqsUpTo(PipelineRows, MaxRows)}

PipelineInit ==
  /\ app \in {"vanilla", "react"}
  /\ hst_theme = "none"
  /\ PageBlank
  /\ input \in PipelineInputs
  /\ output = NoOutput

EvalStrainBadge ==
  /\ app = "vanilla" /\ input.kind = "strain" /\ output = NoOutput
  /\ output' = [fn |-> "strainBadge", badge |-> strainBadge(input.strain)]
  /\ UNCHANGED <<app, hst_theme, pageVars, reactVars, hist, input>>

EvalGetStrainColor ==
  /\ app = "react" /\ input.kind = "strain" /\ output = NoOutput
  /\ output' = [fn |-> "getStrainColor", color |-> getStrainColor(input.strain)]
  /\ UNCHANGED <<app, hst_theme, pageVars, reactVars, hist, input>>

\* the badge, the table pill and the bar color of one strain value
EvalStrainSurfaces ==
  /\ app = "vanilla" /\ input.kind = "strain" /\ output = NoOutput
  /\ output' = [fn    |-> "surfaces",
                badge |-> strainBadge(input.strain),
                pill  |-> strainPill(input.strain),
                bars  |-> buildBarColors(<<input.strain>>)]
  /\ UNCHANGED <<app, hst_theme, pageVars, reactVars, hist, input>>

\* the table's delta cell of a payload row with this delta
EvalDeltaCell ==
  /\ app = "vanilla" /\ input.kind = "delta" /\ output = NoOutput
  /\ LET r == normalizeRow(PayloadRow(<<"R">>, 0, input.delta))
     IN  output' = [fn |-> "deltaCell", delta |-> r.delta, cell |-> deltaCell(r.delta)]
  /\ UNCHANGED <<app, hst_theme, pageVars, reactVars, hist, input>>

EvalFormatDelta ==
  /\ app = "react" /\ input.kind = "delta" /\ output = NoOutput
  /\ output' = [fn    |-> "formatDelta",
                text  |-> formatDelta(input.delta),
                color |-> App_deltaColor(input.delta)]
  /\ UNCHANGED <<app, hst_theme, pageVars, reactVars, hist, input>>

\* a first render of the payload on a fresh page
EvalRenderDashboard ==
  /\ app = "vanilla" /\ input.kind = "rows" /\ output = NoOutput
  /\ LET got == fetchMetrics(Answer(TRUE, BodyRows(input.rows)))
     IN  output' = [fn      |-> "renderDashboard",
                    fetched |-> got.rows,
                    page    |-> renderDashboard(got.rows, DefaultDate, NoChart, 0,
                                                NoChart, 0, FALSE)]
  /\ UNCHANGED <<app, hst_theme, pageVars, reactVars, hist, input>>

EvalDownloadCSV ==
  /\ app = "vanilla" /\ input.kind = "rows" /\ output = NoOutput
  /\ LET got == fetchMetrics(Answer(TRUE, BodyRows(input.rows)))
     IN  output' = [fn      |-> "downloadCSV",
                    fetched |-> got.rows,
                    file    |-> downloadCSV(got.rows, DefaultDate)]
  /\ UNCHANGED <<app, hst_theme, pageVars, reactVars, hist, input>>

\* toCSV of the payload's rows as fetched, in their order
EvalToCSV ==
  /\ app = "vanilla" /\ input.kind = "rows" /\ output = NoOutput
  /\ LET got == fetchMetrics(Answer(TRUE, BodyRows(input.rows)))
     IN  output' = [fn |-> "toCSV", rows |-> got.rows, text |-> toCSV(got.rows)]
  /\ UNCHANGED <<app, hst_theme, pageVars, reactVars, hist, input>>

\* the component's view once the payload is stored
EvalApp ==
  /\ app = "react" /\ input.kind = "rows" /\ output = NoOutput
  /\ LET got == App_fetchMetrics(Answer(TRUE, BodyRows(input.rows)))
     IN  output' = [fn      |-> "App",
                    fetched |-> got.data.rows,
                    view    |-> App_view(got.data, FALSE, got.error)]
  /\ UNCHANGED <<app, hst_theme, pageVars, reactVars, hist, input>>

PipelineNext ==
  \/ EvalStrainBadge
  \/ EvalGetStrainColor
  \/ EvalStrainSurfaces
  \/ EvalDeltaCell
  \/ EvalFormatDelta
  \/ EvalRenderDashboard
  \/ EvalDownloadCSV
  \/ EvalToCSV
  \/ EvalApp

PipelineSpec == PipelineInit /\ [][PipelineNext]_vars

(***************************************************************************)
(* Claims                                                                  *)
(***************************************************************************)
Range(f) == {f[i] : i \in DOMAIN f}

InflightRenders == {r.id : r \in {q \in inflight : q.kind = "render"}}

BarData(chart) ==
  [labels |-> chart.labels, data |-> chart.data,
   backgroundColor |-> chart.backgroundColor]
LineData(chart) == [labels |-> chart.labels, data |-> chart.data]

\* C1: whatever the request's outcome, fetchMetrics hands no error to its
\* caller, and after a transport failure, a non-2xx answer or a malformed
\* payload the snapshot the dashboard holds has no rows.
C1_FailSoftEmpty ==
  /\ ~uncaught
  /\ (hist.renders # <<>> /\ IsFailure(hist.resp)) =>
       IF app = "vanilla"
         THEN hist.fetched = <<>> /\ tableBody = <<>>
         ELSE data = BodyRows(<<>>) /\ error = NoError

\* C2: overlapping renders are never cancelled: every render this page
\* started is still in flight or has rendered, a render in flight can always
\* complete, and the dashboard shows the rows of the answer that completed
\* last, whichever request was issued later.
C2_NoCancelLastWins ==
  app = "vanilla" =>
    /\ hist.issued = InflightRenders \cup Range(hist.renders)
    /\ InflightRenders \cap Range(hist.renders) = {}
    /\ Len(hist.renders) = Cardinality(Range(hist.renders))
    /\ (InflightRenders # {} => ENABLED CompleteRender)
    /\ hist.renders # <<>> =>
         /\ tableBody = tableRows(sortByStrainDesc(hist.fetched))
         /\ barChartInstance.data = strains(sortByStrainDesc(hist.fetched))

\* the older of two overlapping renders completed last and is what is shown
C2_Witness ==
  /\ app = "vanilla"
  /\ hist.renders = <<2, 1>>
  /\ hist.fetched # <<>>
  /\ datePicker # DefaultDate
  /\ lastRefreshed = refreshedText(DefaultDate)
  /\ tableBody = tableRows(sortByStrainDesc(hist.fetched))

\* C3: a theme toggle flips the theme, persists it and recolors the charts in
\* the same step; it starts no fetch and leaves the table, the KPIs and the
\* charts' data as they were, also while a fetch is in flight.
C3_ToggleOnlyTheme ==
  [][ToggleTheme =>
       /\ dark' = ~dark
       /\ hst_theme' = (IF dark' THEN "dark" ELSE "light")
       /\ (barChartInstance # NoChart =>
             /\ barChartInstance'.yGrid = chartThemeColors(dark').grid
             /\ barChartInstance'.xTicks = chartThemeColors(dark').ticks
             /\ barChartInstance'.borderColor = chartThemeColors(dark').border
             /\ lineChartInstance'.yGrid = chartThemeColors(dark').grid
             /\ BarData(barChartInstance') = BarData(barChartInstance)
             /\ LineData(lineChartInstance') = LineData(lineChartInstance))
       /\ inflight' = inflight
       /\ nextId' = nextId
       /\ tableBody' = tableBody
       /\ kpi' = kpi
       /\ uncaught' = uncaught]_vars

\* a toggle made while a fetch is in flight, on built charts
C3_Witness ==
  /\ hist.op = "toggle"
  /\ inflight # {}
  /\ barChartInstance # NoChart
  /\ hst_theme = "dark" /\ dark
  /\ tableBody # <<>>

\* C4: a recolor of built charts writes the style fields only: the bar
\* chart's labels, values and bar colors and the trend chart's labels and
\* values are the same before and after, and no instance is replaced.
C4_RecolorKeepsData ==
  [][(ToggleTheme /\ barChartInstance # NoChart) =>
       /\ barChartInstance'.labels = barChartInstance.labels
       /\ barChartInstance'.data = barChartInstance.data
       /\ barChartInstance'.backgroundColor = barChartInstance.backgroundColor
       /\ barChartInstance'.inst = barChartInstance.inst
       /\ lineChartInstance'.labels = lineChartInstance.labels
       /\ lineChartInstance'.data = lineChartInstance.data
       /\ lineChartInstance'.inst = lineChartInstance.inst
       /\ DOMAIN barChartInstance' = DOMAIN barChartInstance
       /\ DOMAIN lineChartInstance' = DOMAIN lineChartInstance]_vars

\* a recolor to the light theme of a chart that holds two bars
C4_Witness ==
  /\ hist.op = "toggle"
  /\ barChartInstance # NoChart
  /\ Len(barChartInstance.data) = 2
  /\ barChartInstance.backgroundColor = buildBarColors(barChartInstance.data)
  /\ ~dark
  /\ barChartInstance.borderColor = chartThemeColors(FALSE).border

\* C5: while no chart instance exists, a recolor (theme initialization, or a
\* toggle before the first render) raises no error and creates no instance.
C5_RecolorNoChartNoOp ==
  (app = "vanilla" /\ loaded /\ hist.renders = <<>>) =>
    /\ barChartInstance = NoChart
    /\ lineChartInstance = NoChart
    /\ hist.barBuilt = 0 /\ hist.lineBuilt = 0
    /\ ~uncaught

\* the theme was initialized and then toggled before the first render
C5_Witness ==
  /\ app = "vanilla" /\ loaded
  /\ hist.op = "toggle"
  /\ hist.renders = <<>>
  /\ barChartInstance = NoChart

\* C6: within a page session each chart is constructed once, by the first
\* rebuild; later rebuilds and recolors keep that instance, and nothing
\* returns the renderer to Uninitialized.
C6_BuiltOnceStays ==
  /\ [](app = "vanilla" =>
          /\ (hist.renders = <<>>) <=> (barChartInstance = NoChart)
          /\ (barChartInstance = NoChart) <=> (lineChartInstance = NoChart)
          /\ barChartInstance # NoChart =>
               /\ hist.barBuilt = 1 /\ barChartInstance.inst = 1
               /\ hist.lineBuilt = 1 /\ lineChartInstance.inst = 1)
  /\ [][(barChartInstance # NoChart /\ ~LoadPage) =>
          /\ barChartInstance' # NoChart
          /\ lineChartInstance' # NoChart
          /\ barChartInstance'.inst = barChartInstance.inst
          /\ lineChartInstance'.inst = lineChartInstance.inst
          /\ hist'.barBuilt = hist.barBuilt
          /\ hist'.lineBuilt = hist.lineBuilt]_vars

\* a second rebuild, on the instance the first one made
C6_Witness ==
  /\ app = "vanilla"
  /\ Len(hist.renders) = 2
  /\ hist.op = "render"
  /\ barChartInstance.inst = 1 /\ hist.barBuilt = 1
  /\ lineChartInstance.inst = 1 /\ hist.lineBuilt = 1

\* the orderings of a sequence, given as the sequences of its values so ordered
Injections(n) ==
  {f \in [1..n -> 1..n] : \A i, j \in 1..n : i # j => f[i] # f[j]}
Orderings(rows) ==
  {[i \in 1..Len(rows) |-> rows[f[i]]] : f \in Injections(Len(rows))}
NonIncreasing(nums) == \A i \in 1..(Len(nums) - 1) : nums[i] >= nums[i + 1]

RECURSIVE TotalOf(_, _)
TotalOf(nums, n) == IF n = 0 THEN 0 ELSE nums[n] + TotalOf(nums, n - 1)

CountAbove(nums, limit) == Cardinality({i \in 1..Len(nums) : nums[i] > limit})

RenderedRows == output.fn = "renderDashboard"
ExportedRows == output.fn = "downloadCSV"
AppRendered  == output.fn = "App"

\* the static dashboard's part of C7
C7_VanillaRanked ==
  /\ RenderedRows =>
       \E pi \in Orderings(output.fetched) :
         /\ NonIncreasing(strains(pi))
         /\ output.page.view.rows = pi
         /\ output.page.tableBody = tableRows(pi)
         /\ output.page.bar.labels = regions(pi)
         /\ output.page.bar.data = strains(pi)
  /\ ExportedRows =>
       \E pi \in Orderings(output.fetched) :
         /\ NonIncreasing(strains(pi))
         /\ output.file.text = toCSV(pi)

\* C7 as stated: for every fetched row sequence, the rows that feed the table,
\* the bar chart and the export are a permutation of the fetched rows
\* (duplicates kept) in non-increasing strain order.
C7_RankedEverywhere ==
  /\ C7_VanillaRanked
  /\ AppRendered =>
       \E pi \in Orderings(output.fetched) :
         /\ NonIncreasing(payloadStrains(pi))
         /\ output.view.rows = pi

\* C7 as amended: the static dashboard ranks as stated; the React dashboard
\* feeds its table and bar chart the fetched rows in payload order.
C7_RankedVanillaOnly ==
  /\ C7_VanillaRanked
  /\ AppRendered => (output.view.shown /\ output.view.rows = input.rows)

\* three rows fetched out of order, two of them equal, and ranked
C7_Witness ==
  /\ RenderedRows
  /\ Len(output.fetched) = 3
  /\ output.fetched[1].strain < output.fetched[2].strain
  /\ output.fetched[2] = output.fetched[3]
  /\ output.page.view.rows = <<output.fetched[2], output.fetched[3], output.fetched[1]>>
  /\ Len(output.page.tableBody) = 3

\* the static dashboard's part of C8
C8_VanillaEmpty ==
  (RenderedRows /\ output.fetched = <<>>) =>
    /\ output.page.view.avg.den # 0
    /\ output.page.view.avg.num = 0
    /\ output.page.view.crisisCount = 0
    /\ output.page.view.highest = [region |-> <<"-">>, strain |-> 0]
    /\ output.page.kpi.average = <<"0", ".", "0">>
    /\ output.page.kpi.crisis = 0

\* C8 as stated: for an empty snapshot the average is exactly 0, the crisis
\* count is exactly 0 and highest is the sentinel; nothing is divided by zero.
C8_EmptyZeroSentinel ==
  /\ C8_VanillaEmpty
  /\ (AppRendered /\ output.fetched = <<>>) =>
       /\ output.view.average = <<"0", ".", "0", "0">>
       /\ output.view.crisis = 0
       /\ output.view.highest.region = <<"-">>

\* C8 as amended: so in the static dashboard; in the React dashboard an empty
\* snapshot has no highest row and no average (both null), a crisis count of
\* 0, and is shown as "no data" without KPI cards.
C8_EmptyPerFrontend ==
  /\ C8_VanillaEmpty
  /\ (AppRendered /\ output.fetched = <<>>) =>
       /\ output.view.average = NoAverage
       /\ output.view.highest = NoRow
       /\ output.view.crisis = 0
       /\ output.view.noData /\ ~output.view.cards

\* an empty snapshot rendered by the static dashboard
C8_Witness ==
  /\ RenderedRows
  /\ output.fetched = <<>>
  /\ output.page.kpi.highestState = <<"-">>
  /\ output.page.tableBody = <<>>

\* highest and crisis count of a non-empty snapshot, in both dashboards
C9_HighestAndCrisis ==
  /\ (RenderedRows /\ output.fetched # <<>>) =>
       LET v == output.page.view
           nums == strains(output.fetched)
       IN  /\ v.highest = v.rows[1]
           /\ \E i \in 1..Len(output.fetched) : output.fetched[i] = v.highest
           /\ \A i \in 1..Len(nums) : nums[i] <= v.highest.strain
           /\ v.crisisCount = CountAbove(nums, 8000)
           /\ v.avg.den # 0
           /\ v.avg.num * Len(nums) = TotalOf(nums, Len(nums)) * v.avg.den
           /\ regions(v.rows) = << <<"X">>, <<"Y">> >> =>
                /\ v.highest.region = <<"X">>
                /\ v.avg.num = 7250 * v.avg.den
                /\ v.crisisCount = 1
  /\ (AppRendered /\ output.fetched # <<>>) =>
       LET v == output.view
           nums == payloadStrains(output.fetched)
       IN  /\ \E i \in 1..Len(output.fetched) : output.fetched[i] = v.highest
           /\ \A i \in 1..Len(nums) : nums[i] <= v.highest.strain_index
           /\ v.crisis = CountAbove(nums, 8000)

\* C9 as stated: for a non-empty snapshot highest is a row of maximal strain
\* (the first ranked row), average is the sum of the strains divided by the
\* row count, and the crisis count is the number of rows above 80.
C9_KpisExact ==
  /\ C9_HighestAndCrisis
  /\ (AppRendered /\ output.fetched # <<>>) =>
       LET nums == payloadStrains(output.fetched)
           sum  == TotalOf(nums, Len(nums))
       IN  /\ sum % Len(nums) = 0
           /\ output.view.average = toFixed2(sum \div Len(nums), 1)

\* C9 as amended: so in the static dashboard; the React dashboard keeps the
\* average only as text rounded to two decimals.
C9_KpisReactRounded ==
  /\ C9_HighestAndCrisis
  /\ (AppRendered /\ output.fetched # <<>>) =>
       LET nums == payloadStrains(output.fetched)
           n    == Len(nums)
           sum  == TotalOf(nums, n)
       IN  \E t \in {sum \div n, sum \div n + 1} :
             /\ 2 * Abs(t * n - sum) <= n
             /\ output.view.average = toFixed2(t, 1)

\* the spec's example: Y = 60 and X = 85 fetched, X ranked first
C9_Witness ==
  /\ RenderedRows
  /\ regions(output.fetched) = << <<"Y">>, <<"X">> >>
  /\ output.page.view.highest.region = <<"X">>
  /\ output.page.kpi.average = <<"7", "2", ".", "5">>
  /\ output.page.view.crisisCount = 1

\* C10: severity classification is total on [0,100] and yields exactly one
\* class: CRISIS iff above 80, ELEVATED iff from 70 to 80, STABLE otherwise;
\* 80.00 is ELEVATED, 80.01 CRISIS, 70.00 ELEVATED, 69.99 STABLE.
C10_SeverityClasses ==
  /\ (input.kind = "strain" /\ output = NoOutput) => ENABLED PipelineNext
  /\ output.fn = "strainBadge" =>
       LET v == input.strain
           l == output.badge.label
       IN  /\ l \in {"CRISIS", "ELEVATED", "STABLE"}
           /\ (l = "CRISIS") <=> (v > 8000)
           /\ (l = "ELEVATED") <=> (v >= 7000 /\ v <= 8000)
           /\ (l = "STABLE") <=> (v < 7000)
           /\ v = 8000 => l = "ELEVATED"
           /\ v = 8001 => l = "CRISIS"
           /\ v = 7000 => l = "ELEVATED"
           /\ v = 6999 => l = "STABLE"
  /\ output.fn = "getStrainColor" =>
       LET v == input.strain
           c == output.color
       IN  /\ c \in {"text-red-600", "text-orange-600", "text-green-600"}
           /\ (c = "text-red-600") <=> (v > 8000)
           /\ (c = "text-orange-600") <=> (v >= 7000 /\ v <= 8000)
           /\ (c = "text-green-600") <=> (v < 7000)

\* a strain of exactly 80 classified
C10_Witness ==
  /\ output.fn = "strainBadge"
  /\ input.strain = 8000
  /\ output.badge.label = "ELEVATED"

\* the severity class a surface's value stands for ("?" if for none)
ClassOfLabel(label) ==
  IF label \in {"CRISIS", "ELEVATED", "STABLE"} THEN label ELSE "?"
ClassOfBadgeColor(cls) ==
  IF cls = "bg-rose-100 text-rose-700 dark:bg-rose-900/40 dark:text-rose-200"
    THEN "CRISIS"
  ELSE IF cls = "bg-orange-100 text-orange-700 dark:bg-orange-900/35 dark:text-orange-200"
    THEN "ELEVATED"
  ELSE IF cls = "bg-emerald-100 text-emerald-700 dark:bg-emerald-900/35 dark:text-emerald-200"
    THEN "STABLE"
  ELSE "?"
ClassOfPill(cls) ==
  IF cls = "bg-rose-500/10 text-rose-700 dark:text-rose-200 border border-rose-500/20"
    THEN "CRISIS"
  ELSE IF cls = "bg-orange-500/10 text-orange-700 dark:text-orange-200 border border-orange-500/20"
    THEN "ELEVATED"
  ELSE IF cls = "bg-emerald-500/10 text-emerald-700 dark:text-emerald-200 border border-emerald-500/20"
    THEN "STABLE"
  ELSE "?"
ClassOfBarColor(rgba) ==
  IF rgba = "rgba(244, 63, 94, 0.75)" THEN "CRISIS"
  ELSE IF rgba = "rgba(249, 115, 22, 0.75)" THEN "ELEVATED"
  ELSE IF rgba = "rgba(16, 185, 129, 0.75)" THEN "STABLE"
  ELSE "?"

\* C11: for every strain value the badge text, the badge color, the table
\* pill color and the bar color stand for one and the same severity class;
\* so do, in a rendered dashboard, each row's pill and bar and the highest
\* row's badge.
C11_SurfacesAgree ==
  /\ output.fn = "surfaces" =>
       LET k == ClassOfLabel(output.badge.label)
       IN  /\ k # "?"
           /\ ClassOfBadgeColor(output.badge.cls) = k
           /\ ClassOfPill(output.pill) = k
           /\ Len(output.bars) = 1
           /\ ClassOfBarColor(output.bars[1]) = k
  /\ RenderedRows =>
       LET p == output.page
       IN  /\ Len(p.bar.backgroundColor) = Len(p.tableBody)
           /\ \A i \in 1..Len(p.tableBody) :
                /\ ClassOfPill(p.tableBody[i].pill) # "?"
                /\ ClassOfPill(p.tableBody[i].pill)
                     = ClassOfBarColor(p.bar.backgroundColor[i])
           /\ ClassOfLabel(p.kpi.highestBadge.label)
                = ClassOfBadgeColor(p.kpi.highestBadge.cls)
           /\ p.tableBody # <<>> =>
                ClassOfLabel(p.kpi.highestBadge.label) = ClassOfPill(p.tableBody[1].pill)

\* a strain of exactly 70: every surface shows ELEVATED
C11_Witness ==
  /\ output.fn = "surfaces"
  /\ input.strain = 7000
  /\ output.badge.label = "ELEVATED"
  /\ ClassOfPill(output.pill) = "ELEVATED"
  /\ ClassOfBarColor(output.bars[1]) = "ELEVATED"

\* the trend a delta cell's color stands for ("?" if for none)
TrendOfDeltaCell(cls) ==
  IF cls = "text-rose-600 dark:text-rose-300" THEN "worsening"
  ELSE IF cls = "text-emerald-600 dark:text-emerald-300" THEN "improving"
  ELSE IF cls = "text-slate-600 dark:text-slate-300" THEN "neutral"
  ELSE "?"
TrendOfAppColor(cls) ==
  IF cls = "text-red-600" THEN "worsening"
  ELSE IF cls = "text-green-600" THEN "improving"
  ELSE IF cls = "text-gray-600" THEN "neutral"
  ELSE "?"
TrendOf(d) == IF d > 0 THEN "worsening" ELSE IF d < 0 THEN "improving" ELSE "neutral"

SignText(d) == IF d > 0 THEN <<"+">> ELSE IF d < 0 THEN <<"-">> ELSE <<>>

\* text shows d (hundredths) to one decimal: a nearest tenth, signed
IsOneDecimalOf(text, d) ==
  \E t \in {Abs(d) \div 10, Abs(d) \div 10 + 1} :
    /\ 2 * Abs(10 * t - Abs(d)) <= 10
    /\ text = SignText(d) \o NatStr(t \div 10) \o <<".", DigitChar(t % 10)>>

\* text shows d (hundredths) to two decimals, signed
IsTwoDecimalsOf(text, d) ==
  text = SignText(d) \o NatStr(Abs(d) \div 100)
           \o <<".", DigitChar((Abs(d) % 100) \div 10), DigitChar(Abs(d) % 10)>>

\* the static dashboard's part of C12
C12_DeltaCell ==
  output.fn = "deltaCell" =>
    LET d == output.delta
    IN  /\ input.delta # <<>> => d = input.delta[1]
        /\ input.delta = <<>> => d = 0
        /\ TrendOfDeltaCell(output.cell.cls) = TrendOf(d)
        /\ IsOneDecimalOf(output.cell.text, d)
        /\ d = 500 => output.cell.text = <<"+", "5", ".", "0">>
        /\ d = -325 => output.cell.text = <<"-", "3", ".", "3">>
        /\ d = 0 => output.cell.text = <<"0", ".", "0">>

\* C12 as stated: the delta's color is worsening iff delta > 0, improving iff
\* delta < 0, neutral iff delta = 0, and its text is the value rounded to one
\* decimal with '+' only for positive values (5.0 -> "+5.0", -3.25 -> "-3.3",
\* 0 -> "0.0").
C12_OneDecimalEverywhere ==
  /\ C12_DeltaCell
  /\ (output.fn = "formatDelta" /\ input.delta # <<>>) =>
       /\ TrendOfAppColor(output.color) = TrendOf(input.delta[1])
       /\ IsOneDecimalOf(output.text, input.delta[1])

\* C12 as amended: so in the static dashboard (an absent delta counts as 0);
\* the React dashboard colors by the same rule but writes the delta with two
\* decimals, and shows an absent delta as "-" in the neutral color.
C12_DeltaPerFrontend ==
  /\ C12_DeltaCell
  /\ output.fn = "formatDelta" =>
       IF input.delta # <<>>
         THEN /\ TrendOfAppColor(output.color) = TrendOf(input.delta[1])
              /\ IsTwoDecimalsOf(output.text, input.delta[1])
         ELSE /\ TrendOfAppColor(output.color) = "neutral"
              /\ output.text = <<"-">>

\* -3.25 shown by the static dashboard
C12_Witness ==
  /\ output.fn = "deltaCell"
  /\ input.delta = <<-325>>
  /\ output.cell.text = <<"-", "3", ".", "3">>
  /\ TrendOfDeltaCell(output.cell.cls) = "improving"

ThemeName(isDark) == IF isDark THEN "dark" ELSE "light"
JustInitialized == app = "vanilla" /\ hist.op = "load"

\* C13: theme initialization resolves to the persisted preference if it is
\* 'light' or 'dark'; otherwise (no entry, or an entry that is neither) to
\* the host's ambient preference; otherwise, the host stating none, to light.
C13_InitResolution ==
  JustInitialized =>
    LET saved   == hist.init.saved
        ambient == hist.init.ambient
    IN  /\ saved \in StoredValues /\ ambient \in Ambient
        /\ saved = "dark" => dark
        /\ saved = "light" => ~dark
        /\ (saved \notin {"light", "dark"} /\ ambient = "dark") => dark
        /\ (saved \notin {"light", "dark"} /\ ambient = "light") => ~dark
        /\ (saved \notin {"light", "dark"} /\ ambient = "unknown") => ~dark

\* an invalid stored value falls through to the host's dark preference
C13_Witness ==
  /\ JustInitialized
  /\ hist.init.saved = "bogus"
  /\ hist.init.ambient = "dark"
  /\ dark

\* C14: initialization persists the theme it resolved, and once one
\* initialization has run a later one resolves to the theme persisted last
\* (by that initialization or by a toggle since), whatever the ambient
\* preference is by then.
C14_InitStable ==
  [][ /\ (app = "vanilla" /\ hist'.op = "load") => hst_theme' = ThemeName(dark')
      /\ (app = "vanilla" /\ loaded /\ hist'.op = "load") =>
           /\ hst_theme \in {"light", "dark"}
           /\ hst_theme' = hst_theme
           /\ dark' = (hst_theme = "dark")
           /\ hist'.init.saved = hst_theme ]_vars

\* a reload under a light ambient preference keeps the stored dark theme
C14_Witness ==
  /\ JustInitialized
  /\ hist.init.again
  /\ hist.init.saved = "dark"
  /\ hist.init.ambient = "light"
  /\ dark /\ hst_theme = "dark"

\* C15: once initialized, the persisted preference is the active theme in
\* every state, and the active theme changes only in a toggle step.
C15_StoredIsActive ==
  /\ []((app = "vanilla" /\ loaded) => hst_theme = ThemeName(dark))
  /\ [][(app = "vanilla" /\ loaded /\ dark' # dark) => hist'.op = "toggle"]_vars

\* a toggle to dark made while a fetch is in flight, stored
C15_Witness ==
  /\ app = "vanilla" /\ loaded
  /\ hist.op = "toggle"
  /\ dark /\ hst_theme = "dark"
  /\ inflight # {}

\* the lines of a text: its pieces between line feeds
RECURSIVE SplitLines(_, _)
SplitLines(text, line) ==
  IF text = <<>> THEN <<line>>
  ELSE IF Head(text) = "\n" THEN <<line>> \o SplitLines(Tail(text), <<>>)
  ELSE SplitLines(Tail(text), Append(line, Head(text)))

\* reading a quoted field's inside: a doubled quote is one quote character,
\* a single one is no part of any text
RECURSIVE Undoubled(_)
Undoubled(q) ==
  IF q = <<>> THEN <<>>
  ELSE IF Head(q) # "\"" THEN <<Head(q)>> \o Undoubled(Tail(q))
  ELSE IF Len(q) >= 2 /\ q[2] = "\"" THEN <<"\"">> \o Undoubled(Tail(Tail(q)))
  ELSE <<"lone quote">>

IsQuotedField(field, text) ==
  /\ Len(field) >= 2
  /\ field[1] = "\"" /\ field[Len(field)] = "\""
  /\ Undoubled(SubSeq(field, 2, Len(field) - 1)) = text

\* line is: the region quoted, a comma, the strain, a comma, the delta
IsCsvLineOf(line, r) ==
  \E k \in 1..Len(line) :
    /\ IsQuotedField(SubSeq(line, 1, k), r.region)
    /\ SubSeq(line, k + 1, Len(line))
         = <<",">> \o NumStr(r.strain) \o <<",">> \o NumStr(r.delta)

ExampleCsvRows ==
  << [region |-> <<"A", "\"", "B">>, strain |-> 9100, delta |-> 200],
     [region |-> <<"C">>, strain |-> 5000, delta |-> -100] >>

\* what C16 states apart from its second example line
C16_CsvShape ==
  output.fn = "toCSV" =>
    LET lines == SplitLines(output.text, <<>>)
    IN  /\ Len(lines) = Len(output.rows) + 1
        /\ lines[1] = <<"Region", ",", "Strain Index", ",", "Delta Strain">>
        /\ \A i \in 1..Len(output.rows) : IsCsvLineOf(lines[i + 1], output.rows[i])
        /\ output.rows = ExampleCsvRows =>
             lines[2] = <<"\"", "A", "\"", "\"", "B", "\"", ",", "9", "1", ",", "2">>

\* C16 as stated: toCSV yields the header line, then one line per row in input
\* order with the region quoted, its quote characters doubled, and the numbers
\* as they are; for [{A"B, 91, 2}, {C, 50, -1}] the lines are "A""B",91,2
\* then C,50,-1.
C16_CsvExampleUnquoted ==
  /\ C16_CsvShape
  /\ (output.fn = "toCSV" /\ output.rows = ExampleCsvRows) =>
       SplitLines(output.text, <<>>)[3] = <<"C", ",", "5", "0", ",", "-", "1">>

\* C16 as amended: every region is quoted, so the example's last line is
\* "C",50,-1.
C16_CsvEveryRegionQuoted ==
  /\ C16_CsvShape
  /\ (output.fn = "toCSV" /\ output.rows = ExampleCsvRows) =>
       SplitLines(output.text, <<>>)[3]
         = <<"\"", "C", "\"", ",", "5", "0", ",", "-", "1">>

\* the spec's example rows serialized
C16_Witness ==
  /\ output.fn = "toCSV"
  /\ output.rows = ExampleCsvRows
  /\ Len(SplitLines(output.text, <<>>)) = 3

Displayed == <<kpi, tableBody, lastRefreshed, barChartInstance, lineChartInstance>>

\* C17: a click on the export button issues exactly one fetch of its own for
\* the selected date; when it is answered the file holds that answer's rows
\* in descending-strain order, not the rendered snapshot; neither step
\* changes the displayed rows, KPIs or charts.
C17_ExportOwnFetch ==
  [][ /\ (app = "vanilla" /\ hist'.op = "click") =>
           /\ \E q \in inflight' \ inflight :
                /\ inflight' = inflight \cup {q}
                /\ q.kind = "export"
                /\ q.date = datePicker
           /\ Displayed' = Displayed
           /\ download' = download
      /\ (app = "vanilla" /\ hist'.op = "export") =>
           /\ \E q \in inflight \ inflight' :
                /\ inflight' = inflight \ {q}
                /\ q.kind = "export"
                /\ download'.name = <<"hospital_strain_",
                                      IF q.date = "" THEN "snapshot" ELSE q.date,
                                      ".csv">>
           /\ \E pi \in Orderings(hist'.exported) :
                /\ NonIncreasing(strains(pi))
                /\ download'.text = toCSV(pi)
           /\ Displayed' = Displayed
           /\ hist'.fetched = hist.fetched ]_vars

\* a render and an export for the same date that show different rows
C17_Witness ==
  /\ app = "vanilla"
  /\ hist.op = "export"
  /\ hist.renders # <<>>
  /\ lastRefreshed = [localeDate |-> DefaultDate]
  /\ download # NoDownload
  /\ download.name[2] = DefaultDate
  /\ tableBody # <<>>
  /\ hist.exported # <<>>
  /\ hist.exported # hist.fetched

PendingRenders == {q \in inflight : q.kind \in {"render", "react"}}
LatestIssued == CHOOSE i \in hist.issued : \A j \in hist.issued : j <= i

\* C18: a fetch response is applied to the dashboard only if its request is
\* the latest one issued, so the applied responses follow the order of issue,
\* and once no fetch is in flight the dashboard shows the response to the
\* request issued last, for the date selected last.
C18_OnlyLatestApplied ==
  hist.renders # <<>> =>
    /\ \A i \in 1..(Len(hist.renders) - 1) : hist.renders[i] < hist.renders[i + 1]
    /\ PendingRenders = {} =>
         /\ hist.renders[Len(hist.renders)] = LatestIssued
         /\ app = "vanilla" =>
              lastRefreshed.localeDate = (IF datePicker = "" THEN "-" ELSE datePicker)

SeverityOf(v) == IF v > 8000 THEN "CRISIS" ELSE IF v >= 7000 THEN "ELEVATED" ELSE "STABLE"

\* rows are what fetchMetrics makes of the answer resp
IsFetchedFrom(rows, resp) ==
  IF resp.transport # "fail" /\ resp.body.kind = "rows"
    THEN /\ Len(rows) = Len(resp.body.rows)
         /\ \A i \in 1..Len(rows) :
              /\ rows[i].region = resp.body.rows[i].region
              /\ rows[i].strain = resp.body.rows[i].strain_index
    ELSE rows = <<>>

\* C19: after any sequence of renders the table rows, the KPIs and the bar
\* chart's labels, values and colors are all those of the rows of the one
\* response rendered last, ranked; nothing of an earlier snapshot is left.
C19_OneSnapshotShown ==
  (app = "vanilla" /\ hist.renders # <<>>) =>
    /\ IsFetchedFrom(hist.fetched, hist.resp)
    /\ \E pi \in Orderings(hist.fetched) :
         /\ NonIncreasing(strains(pi))
         /\ Len(tableBody) = Len(pi)
         /\ \A i \in 1..Len(pi) :
              /\ tableBody[i].region = pi[i].region
              /\ ClassOfPill(tableBody[i].pill) = SeverityOf(pi[i].strain)
              /\ IsOneDecimalOf(tableBody[i].delta.text, pi[i].delta)
         /\ barChartInstance.labels = regions(pi)
         /\ barChartInstance.data = strains(pi)
         /\ Len(barChartInstance.backgroundColor) = Len(pi)
         /\ \A i \in 1..Len(pi) :
              ClassOfBarColor(barChartInstance.backgroundColor[i]) = SeverityOf(pi[i].strain)
         /\ kpi.highestState = (IF pi = <<>> THEN <<"-">> ELSE pi[1].region)
         /\ ClassOfLabel(kpi.highestBadge.label)
              = SeverityOf(IF pi = <<>> THEN 0 ELSE pi[1].strain)
         /\ kpi.crisis = CountAbove(strains(pi), 8000)

\* the older of two overlapping renders arrived last with two rows and
\* replaced the newer one's in the chart built by the first
C19_Witness ==
  /\ app = "vanilla"
  /\ hist.renders = <<2, 1>>
  /\ regions(hist.fetched) = << <<"C">>, <<"A", "\"", "B">> >>
  /\ barChartInstance.labels = << <<"A", "\"", "B">>, <<"C">> >>
  /\ barChartInstance.inst = 1 /\ hist.barBuilt = 1
  /\ Len(tableBody) = 2
  /\ kpi.crisis = 1

ThemeGrid   == IF dark THEN "rgba(148,163,184,0.14)" ELSE "rgba(148,163,184,0.28)"
ThemeTicks  == IF dark THEN "rgba(226,232,240,0.85)" ELSE "rgba(15,23,42,0.75)"
ThemeBorder == IF dark THEN "rgba(148,163,184,0.22)" ELSE "rgba(148,163,184,0.35)"

\* C20: whenever the charts exist, their grid, tick and bar border colors are
\* those of the active theme, whatever the interleaving of renders, toggles
\* and fetch completions.
C20_ChartsInActiveTheme ==
  app = "vanilla" =>
    /\ barChartInstance # NoChart =>
         /\ barChartInstance.yGrid = ThemeGrid
         /\ barChartInstance.xTicks = ThemeTicks
         /\ barChartInstance.yTicks = ThemeTicks
         /\ barChartInstance.borderColor = ThemeBorder
    /\ lineChartInstance # NoChart =>
         /\ lineChartInstance.yGrid = ThemeGrid
         /\ lineChartInstance.xTicks = ThemeTicks
         /\ lineChartInstance.yTicks = ThemeTicks

\* a toggle to dark made while a fetch is in flight, the charts existing
C20_Witness ==
  /\ app = "vanilla"
  /\ hist.op = "toggle"
  /\ PendingRenders # {}
  /\ dark
  /\ barChartInstance # NoChart
  /\ barChartInstance.yGrid = "rgba(148,163,184,0.14)"
  /\ lineChartInstance.xTicks = "rgba(226,232,240,0.85)"

\* f ranks the strains nums stably: position i of the ranking holds input
\* f[i], strains do not increase, and equal strains keep their input order
IsStableRanking(f, nums) ==
  /\ \A i, j \in DOMAIN f : i < j =>
       \/ nums[f[i]] > nums[f[j]]
       \/ (nums[f[i]] = nums[f[j]] /\ f[i] < f[j])

\* the index of the earliest row of maximal strain (nums not empty)
EarliestMax(nums) ==
  CHOOSE k \in 1..Len(nums) :
    /\ \A i \in 1..Len(nums) : nums[i] <= nums[k]
    /\ \A i \in 1..(k - 1) : nums[i] < nums[k]

\* C21: ranking is stable: rows of equal strain keep their fetched order in
\* the ranked rows (table, chart, export), and highest is the earliest
\* fetched row among those of maximal strain, in both dashboards.
C21_StableRanking ==
  /\ RenderedRows =>
       LET n    == Len(output.fetched)
           nums == strains(output.fetched)
       IN  /\ \E f \in Injections(n) :
                /\ IsStableRanking(f, nums)
                /\ output.page.view.rows = [i \in 1..n |-> output.fetched[f[i]]]
                /\ output.page.bar.labels = [i \in 1..n |-> output.fetched[f[i]].region]
                /\ Len(output.page.tableBody) = n
                /\ \A i \in 1..n :
                     output.page.tableBody[i].region = output.fetched[f[i]].region
           /\ n > 0 =>
                /\ output.page.view.highest = output.fetched[EarliestMax(nums)]
                /\ output.page.kpi.highestState = output.fetched[EarliestMax(nums)].region
  /\ ExportedRows =>
       LET n == Len(output.fetched)
       IN  \E f \in Injections(n) :
             /\ IsStableRanking(f, strains(output.fetched))
             /\ output.file.text = toCSV([i \in 1..n |-> output.fetched[f[i]]])
  /\ (AppRendered /\ output.fetched # <<>>) =>
       output.view.highest
         = output.fetched[EarliestMax(payloadStrains(output.fetched))]

\* T and X tie at 85: fetched as T, Y, X they rank T, X, Y with T highest
C21_Witness ==
  /\ RenderedRows
  /\ regions(output.fetched) = << <<"T">>, <<"Y">>, <<"X">> >>
  /\ regions(output.page.view.rows) = << <<"T">>, <<"X">>, <<"Y">> >>
  /\ output.page.view.highest.region = <<"T">>

FetchedFromPayload == output.fn \in {"renderDashboard", "downloadCSV", "toCSV"}
FetcherRows == IF output.fn = "toCSV" THEN output.rows ELSE output.fetched

\* C22: the fetcher's rows are the payload's rows one for one, in payload
\* order, region and strain copied, delta the payload's delta if it has one
\* and 0 if it is absent or null.
C22_RowNormalization ==
  FetchedFromPayload =>
    /\ Len(FetcherRows) = Len(input.rows)
    /\ \A i \in 1..Len(input.rows) :
         /\ DOMAIN FetcherRows[i] = {"region", "strain", "delta"}
         /\ FetcherRows[i].region = input.rows[i].region
         /\ FetcherRows[i].strain = input.rows[i].strain_index
         /\ input.rows[i].delta = <<>> => FetcherRows[i].delta = 0
         /\ input.rows[i].delta # <<>> => FetcherRows[i].delta = input.rows[i].delta[1]

\* a payload with an absent, a zero and a negative delta, normalized
C22_Witness ==
  /\ output.fn = "toCSV"
  /\ Len(input.rows) = 3
  /\ input.rows[1].delta = <<>> /\ output.rows[1].delta = 0
  /\ input.rows[2].delta = <<0>> /\ output.rows[2].delta = 0
  /\ input.rows[3].delta = <<-100>> /\ output.rows[3].delta = -100
  /\ regions(output.rows) = << <<"Y">>, <<"T">>, <<"C">> >>

\* C23: in the React dashboard data and error are never both set, whatever
\* the order in which overlapping fetches are answered.
C23_DataXorError ==
  (app = "react" /\ loaded) => ~(data # NullData /\ error # NoError)

====
